---- MODULE Spec2Model ----
(***************************************************************************)
(* A model of src/app.py, a single-script Streamlit application.           *)
(*                                                                         *)
(* Two specifications share the module:                                    *)
(*   Spec     the session: the script is run from the top on every         *)
(*            interaction; st.session_state survives from run to run;      *)
(*            st.rerun and st.stop cut a run short; a click inside the     *)
(*            @st.fragment function re-executes that function alone.       *)
(*   SpecGen  the two dataset generators, applied to every row count the   *)
(*            "Data Rows" slider produces, with the generated tables kept  *)
(*            in the state.                                                *)
(*                                                                         *)
(* Real numbers are fixed-point integers: a quantity x is held as          *)
(* x * 10 * Resolution, so that one decimal of the literals in the source  *)
(* (40.7, -73.9) and a pseudo-random fraction k / Resolution are exact.    *)
(***************************************************************************)
EXTENDS Integers, Sequences, FiniteSets, TLC

(***************************************************************************)
(* Bounds of the model.                                                    *)
(***************************************************************************)
\* the session takes no further interaction once the view counter reached it
MaxCounter == 3
\* "Add Message" is not clicked on a list of this length
MaxMessages == 2
\* the fragment's button is not clicked once fragment_count reached it
MaxFragment == 2
\* a pseudo-random fraction is one of 0/Resolution .. (Resolution-1)/Resolution
Resolution == 1000
\* SpecCache: the script is not run more often than this
MaxRuns == 3

(***************************************************************************)
(* Literals of the script.                                                 *)
(***************************************************************************)
SliderMin == 100
SliderMax == 2000
SliderStep == 100
SliderDefault == 1000
Seed == 42
TimeseriesPeriods == 365

\* st.slider("Data Rows", 100, 2000, 1000, step=100): the values it can take
SliderValues == {n \in SliderMin..SliderMax : (n - SliderMin) % SliderStep = 0}

\* the options of st.radio("Select Section:", [...])
Pages ==
    <<"Overview", "Text Elements", "Data Display", "Input Widgets",
      "Media Elements", "Layouts", "Charts", "Advanced Features">>

PageNames == {Pages[i] : i \in 1..Len(Pages)}

VARIABLES
    session_state,   \* st.session_state: a function from the keys present to values
    page,            \* the value of the sidebar radio
    data_rows,       \* the value of the "Data Rows" slider
    show_stop_demo,  \* the value of the "Show stop execution demo" checkbox
    pc,              \* where the script runner is
    run_kind,        \* "full": a run of the script; "fragment": of fragment_counter
    trigger,         \* the button whose click started the run, "none" otherwise
    executed,        \* the blocks of the script the current (or last) run executed
    before,          \* st.session_state when the current (or last) run started
    run_end,         \* how the last run ended
    df,              \* the shape of the table the run got from generate_sample_data
    ts_data,         \* the shape of the table from generate_timeseries_data
    views_shown,     \* the value the "Session Views" metric displayed in the run
    screen,          \* the widgets of the page blocks the last run of the script drew
    prng,            \* the multiplier of the pseudo-random generator
    rng,             \* the state of numpy's global generator: [seed, pos]
    sample_out,      \* SpecGen: the table generate_sample_data returned
    ts_out,          \* SpecGen: the table generate_timeseries_data returned
    cache,           \* SpecCache: st.cache_data, the memoized results per function
    returned,        \* SpecCache: what lines 132-133 bound df and ts_data to
    first_seen,      \* SpecCache: per data_rows, what the first run with it got
    runs             \* SpecCache: the runs of the script so far

sessionVars == <<session_state, page, data_rows, show_stop_demo, pc, run_kind,
                 trigger, executed, before, run_end, df, ts_data, views_shown,
                 screen>>
cacheVars == <<cache, returned, first_seen, runs>>
genVars == <<prng, rng, sample_out, ts_out, cacheVars>>
vars == <<sessionVars, genVars>>

(***************************************************************************)
(* pandas.date_range: calendar arithmetic.                                 *)
(***************************************************************************)
IsLeap(y) == (y % 4 = 0 /\ y % 100 # 0) \/ y % 400 = 0

DaysInMonth(y, m) ==
    IF m = 2 THEN (IF IsLeap(y) THEN 29 ELSE 28)
    ELSE IF m \in {4, 6, 9, 11} THEN 30 ELSE 31

RECURSIVE NormalizeDate(_, _, _)
\* the date d days (d >= 1) into month m of year y, carried into later months
NormalizeDate(y, m, d) ==
    IF d <= DaysInMonth(y, m) THEN [year |-> y, month |-> m, day |-> d]
    ELSE IF m = 12 THEN NormalizeDate(y + 1, 1, d - DaysInMonth(y, m))
    ELSE NormalizeDate(y, m + 1, d - DaysInMonth(y, m))

AddDays(date, k) == NormalizeDate(date.year, date.month, date.day + k)

StartDate == [year |-> 2023, month |-> 1, day |-> 1]

\* pd.date_range(start=..., periods=..., freq='D' | 'H')
date_range(start, periods, freq) ==
    [i \in 1..periods |->
        IF freq = "D"
        THEN [date |-> AddDays(start, i - 1), hour |-> 0]
        ELSE [date |-> AddDays(start, (i - 1) \div 24),
              hour |-> (i - 1) % 24]]

(***************************************************************************)
(* numpy.random: the global generator.  The k-th raw draw of a stream is a *)
(* fraction Raw / Resolution in [0, 1); which fractions a seed yields is   *)
(* left open by the choice of prng.                                        *)
(***************************************************************************)
Multipliers == {7, 11, 13}
EntropySeeds == {3, 5}

Raw(state, k) ==
    ((state.pos + k) * prng + state.seed * state.seed
        + ((state.pos + k) \div Resolution)) % Resolution

\* np.random.seed(s)
seed(s) == [seed |-> s, pos |-> 0]

\* the generator after n draws
Advance(state, n) == [state EXCEPT !.pos = @ + n]

Fix(tenths) == tenths * Resolution

\* np.random.choice(options, n)
choice(state, options, n) ==
    [i \in 1..n |-> options[1 + (Raw(state, i - 1) * Len(options)) \div Resolution]]

\* np.random.randint(low, high, n): integers of [low, high)
randint(state, low, high, n) ==
    [i \in 1..n |-> low + (Raw(state, i - 1) * (high - low)) \div Resolution]

\* np.random.uniform(low, high, n), low and high in tenths
uniform(state, low, high, n) ==
    [i \in 1..n |-> Fix(low) + (high - low) * Raw(state, i - 1)]

\* one standard normal deviate from one raw draw, cut at four deviations
Deviate(r) == (2 * r + 1 - Resolution) * 40

\* np.random.randn(n)
randn(state, n) == [i \in 1..n |-> Deviate(Raw(state, i - 1))]

\* np.random.normal(loc, scale, n), loc in tenths
normal(state, loc, scale, n) ==
    [i \in 1..n |-> Fix(loc) + scale * Deviate(Raw(state, i - 1))]

RECURSIVE CumSumFrom(_, _, _, _)
\* the running sums of xs[lo..hi] on top of base
CumSumFrom(xs, lo, hi, base) ==
    IF lo > hi THEN << >>
    ELSE IF lo = hi THEN <<base + xs[lo]>>
    ELSE LET mid == (lo + hi) \div 2
             left == CumSumFrom(xs, lo, mid, base)
         IN  left \o CumSumFrom(xs, mid + 1, hi, left[Len(left)])

\* ndarray.cumsum()
cumsum(xs) ==
    LET sums == CumSumFrom(xs, 1, Cardinality(DOMAIN xs), 0)
    IN  [i \in DOMAIN xs |-> sums[i]]

\* array + scalar (scalar in tenths)
plus(xs, tenths) == [i \in DOMAIN xs |-> xs[i] + Fix(tenths)]

(***************************************************************************)
(* The two generators.                                                     *)
(***************************************************************************)
Categories == <<"A", "B", "C", "D">>
Statuses == <<"Active", "Inactive", "Pending">>

\* the generator's state when column number c (from 0) of the table is drawn
SampleDraw(rows, c) == Advance(seed(Seed), c * rows)

\* lines 60-74: the body of generate_sample_data
SampleFrame(rows) ==
    [timestamp   |-> date_range(StartDate, rows, "H"),
     category    |-> choice(SampleDraw(rows, 0), Categories, rows),
     value       |-> plus(cumsum(randn(SampleDraw(rows, 1), rows)), 1000),
     count       |-> randint(SampleDraw(rows, 2), 1, 100, rows),
     temperature |-> normal(SampleDraw(rows, 3), 250, 5, rows),
     humidity    |-> uniform(SampleDraw(rows, 4), 300, 900, rows),
     status      |-> choice(SampleDraw(rows, 5), Statuses, rows),
     latitude    |-> uniform(SampleDraw(rows, 6), 407, 408, rows),
     longitude   |-> uniform(SampleDraw(rows, 7), -740, -739, rows),
     score       |-> uniform(SampleDraw(rows, 8), 0, 1000, rows)]

\* mutant: the argument is dropped and the default rows=1000 is used
generate_sample_data_default_rows(rows) == SampleFrame(SliderDefault)

\* mutant: the upper limit of randint taken as inclusive, count drawn from [1, 100]
generate_sample_data_count_inclusive(rows) ==
    [SampleFrame(rows) EXCEPT !.count = randint(SampleDraw(rows, 2), 1, 101, rows)]

generate_sample_data(rows) == SampleFrame(rows)

\* the generator after generate_sample_data(rows)
AfterSample(rows) == Advance(seed(Seed), 9 * rows)

TimeseriesDraw(state, c, periods) == Advance(state, c * periods)

\* lines 80-86: the body of generate_timeseries_data
TimeseriesFrame(state, start, periods) ==
    [date    |-> date_range(start, periods, "D"),
     metric1 |-> plus(cumsum(randn(TimeseriesDraw(state, 0, periods), periods)), 500),
     metric2 |-> plus(cumsum(randn(TimeseriesDraw(state, 1, periods), periods)), 300),
     metric3 |-> plus(cumsum(randn(TimeseriesDraw(state, 2, periods), periods)), 700)]

\* mutant: the range starts in a leap year
generate_timeseries_data_leap_year(state) ==
    TimeseriesFrame(state, [StartDate EXCEPT !.year = 2024], TimeseriesPeriods)

generate_timeseries_data(state) == TimeseriesFrame(state, StartDate, TimeseriesPeriods)

AfterTimeseries(state) == Advance(state, 3 * TimeseriesPeriods)

\* len(table), table.columns
NumRows(table) == Cardinality(DOMAIN table[CHOOSE c \in DOMAIN table : TRUE])
Columns(table) == DOMAIN table
Shape(table) == [rows |-> NumRows(table), columns |-> Columns(table)]

NoTable == [rows |-> 0, columns |-> {}]

(***************************************************************************)
(* Initial states, and SpecGen: the generators applied.                    *)
(***************************************************************************)
SessionInit ==
    /\ session_state = << >>
    /\ page = Pages[1]
    /\ data_rows = SliderDefault
    /\ show_stop_demo = FALSE
    /\ pc = "init"
    /\ run_kind = "full"
    /\ trigger = "none"
    /\ executed = {}
    /\ before = << >>
    /\ run_end = "running"
    /\ df = NoTable
    /\ ts_data = NoTable
    /\ views_shown = -1
    /\ screen = {}

\* st.cache_data with nothing memoized: lines 57, 78 and 692
EmptyCache == [sample |-> << >>, timeseries |-> << >>, expensive |-> << >>]

GenInit ==
    /\ prng \in Multipliers
    /\ rng \in {[seed |-> s, pos |-> 0] : s \in EntropySeeds}
    /\ sample_out = << >>
    /\ ts_out = << >>
    /\ cache = EmptyCache
    /\ returned = << >>
    /\ first_seen = << >>
    /\ runs = 0

\* the initial state of SpecGen: any setting of the "Data Rows" slider
InitGen ==
    /\ GenInit
    /\ data_rows \in SliderValues
    /\ session_state = << >>
    /\ page = Pages[1]
    /\ show_stop_demo = FALSE
    /\ pc = "gen"
    /\ run_kind = "full"
    /\ trigger = "none"
    /\ executed = {}
    /\ before = << >>
    /\ run_end = "running"
    /\ df = NoTable
    /\ ts_data = NoTable
    /\ views_shown = -1
    /\ screen = {}

genFrame == <<session_state, page, data_rows, show_stop_demo, pc, run_kind,
              trigger, executed, before, run_end, views_shown, screen>>

\* line 132: df = generate_sample_data(data_rows), computed
CallSample ==
    /\ sample_out = << >>
    /\ sample_out' = generate_sample_data(data_rows)
    /\ df' = Shape(sample_out')
    /\ rng' = AfterSample(data_rows)
    /\ UNCHANGED <<prng, ts_out, ts_data, genFrame, cacheVars>>

\* line 133: ts_data = generate_timeseries_data(), computed
CallTimeseries ==
    /\ ts_out = << >>
    /\ ts_out' = generate_timeseries_data(rng)
    /\ ts_data' = Shape(ts_out')
    /\ rng' = AfterTimeseries(rng)
    /\ UNCHANGED <<prng, sample_out, df, genFrame, cacheVars>>

NextGen ==
    \/ CallSample
    \/ CallTimeseries

SpecGen == InitGen /\ [][NextGen]_vars

(***************************************************************************)
(* Spec: the session.                                                      *)
(***************************************************************************)
Digits == <<"0", "1", "2", "3", "4", "5", "6", "7", "8", "9">>

RECURSIVE IntToStr(_)
\* str(n) of a natural number
IntToStr(n) ==
    IF n < 10 THEN Digits[n + 1]
    ELSE IntToStr(n \div 10) \o Digits[(n % 10) + 1]

\* f"Message {n}"
MessageText(n) == "Message " \o IntToStr(n)

\* if key not in st.session_state: st.session_state[key] = value
SetDefault(ss, key, value) ==
    IF key \in DOMAIN ss THEN ss ELSE ss @@ (key :> value)

\* the page names the if/elif chain of lines 136-667 compares page with, in order
Branches ==
    <<"Overview", "Text Elements", "Data Display", "Input Widgets",
      "Media Elements", "Layouts", "Charts", "Advanced Features">>

\* mutant: one branch of the chain misspells its page name
Dispatch_misspelt(p) ==
    LET chain == [Branches EXCEPT ![6] = "Layout"]
        hits == {i \in 1..Len(chain) : chain[i] = p}
    IN  IF hits = {} THEN {}
        ELSE {chain[CHOOSE i \in hits : \A j \in hits : i <= j]}

\* the block the chain enters for page p: that of the first branch equal to p
Dispatch(p) ==
    LET hits == {i \in 1..Len(Branches) : Branches[i] = p}
    IN  IF hits = {} THEN {}
        ELSE {Branches[CHOOSE i \in hits : \A j \in hits : i <= j]}

\* the rows a page block asks of df.sample(n): lines 480 and 619
SampleSize(block) ==
    CASE block = "Media Elements" -> 100
      [] block = "Charts" -> 200
      [] OTHER -> 0

\* the page-block widgets a click on which reruns the script without touching
\* st.session_state, per block
PlainButtons(block) ==
    CASE block = "Data Display" -> {"Show Edited Data"}
      [] block = "Input Widgets" -> {"Standard Button"}
      [] block = "Layouts" -> {"Update Placeholder", "Open Dialog"}
      [] OTHER -> {}

AdvancedPlainButtons == {"Show Spinner", "Show Success Toast"}

\* a run of the script, or of a fragment, begins
BeginRun(kind, clicked, at) ==
    /\ run_kind' = kind
    /\ trigger' = clicked
    /\ pc' = at
    /\ before' = session_state
    /\ executed' = {}
    /\ run_end' = "running"
    /\ views_shown' = IF kind = "full" THEN -1 ELSE views_shown
    /\ screen' = IF kind = "full" THEN {} ELSE screen
    /\ df' = IF kind = "full" THEN NoTable ELSE df
    /\ ts_data' = IF kind = "full" THEN NoTable ELSE ts_data

\* the session takes interactions while no run is under way
Idle == pc = "idle"

\* the view counter has not reached the bound of the model
CanRun == session_state.counter < MaxCounter

(* ------------------------- interactions ------------------------------- *)

\* the sidebar radio is set to another page
SelectPage(p) ==
    /\ Idle
    /\ CanRun
    /\ p # page
    /\ page' = p
    /\ BeginRun("full", "none", "init")
    /\ UNCHANGED <<session_state, data_rows, show_stop_demo, genVars>>

\* the "Data Rows" slider is moved
MoveSlider(n) ==
    /\ Idle
    /\ CanRun
    /\ n # data_rows
    /\ data_rows' = n
    /\ BeginRun("full", "none", "init")
    /\ UNCHANGED <<session_state, page, show_stop_demo, genVars>>

\* the "Show stop execution demo" checkbox is ticked or cleared
ToggleStopDemo ==
    /\ Idle
    /\ CanRun
    /\ "Show stop execution demo" \in screen
    /\ show_stop_demo' = ~show_stop_demo
    /\ BeginRun("full", "none", "init")
    /\ UNCHANGED <<session_state, page, data_rows, genVars>>

\* "Reset Session" in the sidebar is clicked
ClickReset ==
    /\ Idle
    /\ BeginRun("full", "Reset Session", "init")
    /\ UNCHANGED <<session_state, page, data_rows, show_stop_demo, genVars>>

\* a button of the page on screen, outside a fragment, is clicked
ClickButton(b) ==
    /\ Idle
    /\ CanRun
    /\ b \in screen \ {"frag_btn", "Close"}
    /\ b = "Add Message" => Len(session_state.messages) < MaxMessages
    /\ BeginRun("full", b, "init")
    /\ UNCHANGED <<session_state, page, data_rows, show_stop_demo, genVars>>

\* mutant: fragment_counter without @st.fragment, its button reruns the script
ClickFragment_no_decorator ==
    /\ Idle
    /\ CanRun
    /\ "frag_btn" \in screen
    /\ session_state.fragment_count < MaxFragment
    /\ BeginRun("full", "frag_btn", "init")
    /\ UNCHANGED <<session_state, page, data_rows, show_stop_demo, genVars>>

\* "Increment (Only Fragment Reruns)" is clicked: only fragment_counter reruns
ClickFragment ==
    /\ Idle
    /\ "frag_btn" \in screen
    /\ session_state.fragment_count < MaxFragment
    /\ BeginRun("fragment", "frag_btn", "fragment")
    /\ UNCHANGED <<session_state, page, data_rows, show_stop_demo, genVars>>

\* "Close" in the dialog is clicked: only show_dialog reruns
ClickDialogClose ==
    /\ Idle
    /\ CanRun
    /\ "Close" \in screen
    /\ BeginRun("fragment", "Close", "dialog")
    /\ UNCHANGED <<session_state, page, data_rows, show_stop_demo, genVars>>

(* ------------------------- the script --------------------------------- *)

runFrame == <<page, data_rows, run_kind, trigger, before, genVars>>

\* lines 49-54
InitSessionState ==
    /\ pc = "init"
    /\ session_state' =
          SetDefault(SetDefault(SetDefault(session_state, "counter", 0),
                                "data_cache", "None"), "user_name", "")
    /\ executed' = executed \cup {"init"}
    /\ pc' = "sidebar"
    /\ UNCHANGED <<runFrame, show_stop_demo, run_end, df, ts_data, views_shown, screen>>

\* mutant: Reset Session zeroes the counter without calling st.rerun()
Sidebar_no_rerun ==
    /\ pc = "sidebar"
    /\ views_shown' = session_state.counter
    /\ executed' = executed \cup {"sidebar"}
    /\ session_state' =
          IF trigger = "Reset Session"
          THEN [session_state EXCEPT !.counter = 0] ELSE session_state
    /\ pc' = "increment"
    /\ UNCHANGED <<runFrame, show_stop_demo, run_end, df, ts_data, screen>>

\* mutant: Reset Session empties the whole session record
Sidebar_reset_all ==
    /\ pc = "sidebar"
    /\ views_shown' = session_state.counter
    /\ executed' = executed \cup {"sidebar"}
    /\ IF trigger = "Reset Session"
       THEN /\ session_state' = [counter |-> 0, data_cache |-> "None", user_name |-> ""]
            /\ run_end' = "rerun"
            /\ pc' = "rerun"
       ELSE /\ pc' = "increment"
            /\ UNCHANGED <<session_state, run_end>>
    /\ UNCHANGED <<runFrame, show_stop_demo, df, ts_data, screen>>

\* lines 93-126: the metric shows the counter; Reset Session zeroes it and
\* st.rerun() ends the run there
Sidebar ==
    /\ pc = "sidebar"
    /\ views_shown' = session_state.counter
    /\ executed' = executed \cup {"sidebar"}
    /\ IF trigger = "Reset Session"
       THEN /\ session_state' = [session_state EXCEPT !.counter = 0]
            /\ run_end' = "rerun"
            /\ pc' = "rerun"
       ELSE /\ pc' = "increment"
            /\ UNCHANGED <<session_state, run_end>>
    /\ UNCHANGED <<runFrame, show_stop_demo, df, ts_data, screen>>

\* mutant: the counter is bumped twice
Increment_twice ==
    /\ pc = "increment"
    /\ session_state' = [session_state EXCEPT !.counter = @ + 2]
    /\ executed' = executed \cup {"increment"}
    /\ pc' = "generate"
    /\ UNCHANGED <<runFrame, show_stop_demo, run_end, df, ts_data, views_shown, screen>>

\* line 129
Increment ==
    /\ pc = "increment"
    /\ session_state' = [session_state EXCEPT !.counter = @ + 1]
    /\ executed' = executed \cup {"increment"}
    /\ pc' = "generate"
    /\ UNCHANGED <<runFrame, show_stop_demo, run_end, df, ts_data, views_shown, screen>>

\* lines 132-133
Generate ==
    /\ pc = "generate"
    /\ df' = Shape(generate_sample_data(data_rows))
    /\ ts_data' = Shape(generate_timeseries_data(rng))
    /\ executed' = executed \cup {"generate"}
    /\ pc' = "page"
    /\ UNCHANGED <<runFrame, session_state, show_stop_demo, run_end, views_shown, screen>>

\* lines 136-665: the block of a page other than Advanced Features.  df.sample(n)
\* raises ValueError when n exceeds the rows of df, and the run ends there.
RenderPage ==
    /\ pc = "page"
    /\ Dispatch(page) # {"Advanced Features"}
    /\ executed' = executed \cup Dispatch(page)
    /\ IF \E b \in Dispatch(page) : SampleSize(b) > df.rows
       THEN /\ run_end' = "exception"
            /\ pc' = "idle"
            /\ UNCHANGED screen
       ELSE /\ pc' = "footer"
            /\ screen' = UNION {PlainButtons(b) : b \in Dispatch(page)}
                           \cup (IF trigger = "Open Dialog" THEN {"Close"} ELSE {})
            /\ UNCHANGED run_end
    /\ UNCHANGED <<runFrame, session_state, show_stop_demo, df, ts_data, views_shown>>

\* mutant: the new message replaces the list
AdvancedMessages_replace ==
    /\ pc = "page"
    /\ Dispatch(page) = {"Advanced Features"}
    /\ LET ss == SetDefault(session_state, "messages", << >>)
       IN  session_state' =
             IF trigger = "Add Message"
             THEN [ss EXCEPT !.messages = <<MessageText(Len(ss.messages) + 1)>>]
             ELSE IF trigger = "Clear Messages"
             THEN [ss EXCEPT !.messages = << >>]
             ELSE ss
    /\ executed' = executed \cup {"Advanced Features", "messages"}
    /\ screen' = screen \cup {"Add Message", "Clear Messages"} \cup AdvancedPlainButtons
    /\ pc' = "stop_demo"
    /\ UNCHANGED <<runFrame, show_stop_demo, run_end, df, ts_data, views_shown>>

\* mutant: Clear Messages is drawn but its handler is missing
AdvancedMessages_no_clear ==
    /\ pc = "page"
    /\ Dispatch(page) = {"Advanced Features"}
    /\ LET ss == SetDefault(session_state, "messages", << >>)
       IN  session_state' =
             IF trigger = "Add Message"
             THEN [ss EXCEPT !.messages = Append(@, MessageText(Len(ss.messages) + 1))]
             ELSE ss
    /\ executed' = executed \cup {"Advanced Features", "messages"}
    /\ screen' = screen \cup {"Add Message", "Clear Messages"} \cup AdvancedPlainButtons
    /\ pc' = "stop_demo"
    /\ UNCHANGED <<runFrame, show_stop_demo, run_end, df, ts_data, views_shown>>

\* mutant: the new message is numbered by the length before the append
AdvancedMessages_zero_based ==
    /\ pc = "page"
    /\ Dispatch(page) = {"Advanced Features"}
    /\ LET ss == SetDefault(session_state, "messages", << >>)
       IN  session_state' =
             IF trigger = "Add Message"
             THEN [ss EXCEPT !.messages = Append(@, MessageText(Len(ss.messages)))]
             ELSE IF trigger = "Clear Messages"
             THEN [ss EXCEPT !.messages = << >>]
             ELSE ss
    /\ executed' = executed \cup {"Advanced Features", "messages"}
    /\ screen' = screen \cup {"Add Message", "Clear Messages"} \cup AdvancedPlainButtons
    /\ pc' = "stop_demo"
    /\ UNCHANGED <<runFrame, show_stop_demo, run_end, df, ts_data, views_shown>>

\* lines 667-765: the head of the Advanced Features block, with the message list
AdvancedMessages ==
    /\ pc = "page"
    /\ Dispatch(page) = {"Advanced Features"}
    /\ LET ss == SetDefault(session_state, "messages", << >>)
       IN  session_state' =
             IF trigger = "Add Message"
             THEN [ss EXCEPT !.messages = Append(@, MessageText(Len(ss.messages) + 1))]
             ELSE IF trigger = "Clear Messages"
             THEN [ss EXCEPT !.messages = << >>]
             ELSE ss
    /\ executed' = executed \cup {"Advanced Features", "messages"}
    /\ screen' = screen \cup {"Add Message", "Clear Messages"} \cup AdvancedPlainButtons
    /\ pc' = "stop_demo"
    /\ UNCHANGED <<runFrame, show_stop_demo, run_end, df, ts_data, views_shown>>

\* mutant: the call of st.stop() is missing
StopDemo_no_stop ==
    /\ pc = "stop_demo"
    /\ executed' = executed \cup {"stop_demo"}
                      \cup (IF show_stop_demo THEN {"stop_info"} ELSE {})
    /\ screen' = screen \cup {"Show stop execution demo"}
                      \cup (IF show_stop_demo THEN {"Stop Here"} ELSE {})
    /\ pc' = "rerun_app"
    /\ UNCHANGED run_end
    /\ UNCHANGED <<runFrame, session_state, show_stop_demo, df, ts_data, views_shown>>

\* mutant: the info message is written before the Stop Here button
StopDemo_info_first ==
    /\ pc = "stop_demo"
    /\ executed' = executed \cup {"stop_demo"}
                      \cup (IF show_stop_demo THEN {"stop_info"} ELSE {})
    /\ screen' = screen \cup {"Show stop execution demo"}
                      \cup (IF show_stop_demo THEN {"Stop Here"} ELSE {})
    /\ IF show_stop_demo /\ trigger = "Stop Here"
       THEN run_end' = "stopped" /\ pc' = "idle"
       ELSE pc' = "rerun_app" /\ UNCHANGED run_end
    /\ UNCHANGED <<runFrame, session_state, show_stop_demo, df, ts_data, views_shown>>

\* lines 767-774: st.stop() ends the run at the button
StopDemo ==
    /\ pc = "stop_demo"
    /\ IF show_stop_demo /\ trigger = "Stop Here"
       THEN /\ executed' = executed \cup {"stop_demo"}
            /\ screen' = screen \cup {"Show stop execution demo", "Stop Here"}
            /\ run_end' = "stopped"
            /\ pc' = "idle"
       ELSE /\ executed' = executed \cup {"stop_demo"}
                             \cup (IF show_stop_demo THEN {"stop_info"} ELSE {})
            /\ screen' = screen \cup {"Show stop execution demo"}
                             \cup (IF show_stop_demo THEN {"Stop Here"} ELSE {})
            /\ pc' = "rerun_app"
            /\ UNCHANGED run_end
    /\ UNCHANGED <<runFrame, session_state, show_stop_demo, df, ts_data, views_shown>>

\* lines 778-781: st.rerun() ends the run and asks for another
RerunApp ==
    /\ pc = "rerun_app"
    /\ executed' = executed \cup {"rerun_app"}
    /\ screen' = screen \cup {"Rerun App"}
    /\ IF trigger = "Rerun App"
       THEN run_end' = "rerun" /\ pc' = "rerun"
       ELSE pc' = "fragment_call" /\ UNCHANGED run_end
    /\ UNCHANGED <<runFrame, session_state, show_stop_demo, df, ts_data, views_shown>>

\* lines 790-796: the body of fragment_counter
fragment_counter(ss, clicked) ==
    LET s1 == SetDefault(ss, "fragment_count", 0)
    IN  IF clicked THEN [s1 EXCEPT !.fragment_count = @ + 1] ELSE s1

\* lines 783-874: fragment_counter() called by the script, and the rest of the block
AdvancedRest ==
    /\ pc = "fragment_call"
    /\ session_state' = fragment_counter(session_state, trigger = "frag_btn")
    /\ executed' = executed \cup {"fragment", "advanced_rest"}
    /\ screen' = screen \cup {"frag_btn"}
    /\ pc' = "footer"
    /\ UNCHANGED <<runFrame, show_stop_demo, run_end, df, ts_data, views_shown>>

\* lines 876-880; a run that completes drops the state of widgets it did not draw
Footer ==
    /\ pc = "footer"
    /\ executed' = executed \cup {"footer"}
    /\ run_end' = "completed"
    /\ show_stop_demo' = (show_stop_demo /\ "Show stop execution demo" \in screen)
    /\ pc' = "idle"
    /\ UNCHANGED <<runFrame, session_state, df, ts_data, views_shown, screen>>

\* a fragment rerun: fragment_counter alone, lines 790-796
FragmentRerun ==
    /\ pc = "fragment"
    /\ session_state' = fragment_counter(session_state, trigger = "frag_btn")
    /\ executed' = executed \cup {"fragment"}
    /\ run_end' = "completed"
    /\ pc' = "idle"
    /\ UNCHANGED <<runFrame, show_stop_demo, df, ts_data, views_shown, screen>>

\* a fragment rerun of show_dialog, lines 571-575: Close calls st.rerun()
DialogRerun ==
    /\ pc = "dialog"
    /\ executed' = executed \cup {"dialog"}
    /\ run_end' = "rerun"
    /\ pc' = "rerun"
    /\ UNCHANGED <<runFrame, session_state, show_stop_demo, df, ts_data, views_shown, screen>>

\* the run st.rerun() asked for: the script from the top, no button pressed
Rerun ==
    /\ pc = "rerun"
    /\ BeginRun("full", "none", "init")
    /\ UNCHANGED <<session_state, page, data_rows, show_stop_demo, genVars>>

\* a new session: the script is about to run for the first time.  Spec keeps
\* the shapes of the generated tables only; the generator is left as it starts.
Init ==
    /\ SessionInit
    /\ GenInit

Next ==
    \/ \E p \in PageNames : SelectPage(p)
    \/ \E n \in SliderValues : MoveSlider(n)
    \/ ToggleStopDemo
    \/ ClickReset
    \/ \E b \in screen : ClickButton(b)
    \/ ClickFragment
    \/ ClickDialogClose
    \/ InitSessionState
    \/ Sidebar
    \/ Increment
    \/ Generate
    \/ RenderPage
    \/ AdvancedMessages
    \/ StopDemo
    \/ RerunApp
    \/ AdvancedRest
    \/ Footer
    \/ FragmentRerun
    \/ DialogRerun
    \/ Rerun

Spec == Init /\ [][Next]_vars

(***************************************************************************)
(* SpecCache: lines 132-133 under @st.cache_data.  A memoized table is     *)
(* recorded as the call that computed it: the function, its argument and   *)
(* the state of the generator when the body began to draw; Value is the    *)
(* table.  The cache outlives the runs of the script and is emptied by     *)
(* Streamlit's "Clear cache" command.                                      *)
(***************************************************************************)
Call(fn, arg, state) == [fn |-> fn, arg |-> arg, state |-> state]

Value(call) ==
    IF call.fn = "generate_sample_data"
    THEN generate_sample_data(call.arg)
    ELSE generate_timeseries_data(call.state)

\* the memo with the result for key added
Memoize(memo, key, result) ==
    [k \in DOMAIN memo \cup {key} |-> IF k = key THEN result ELSE memo[k]]

\* the draws a page block takes from the global generator: np.random.uniform in
\* each of the four metric columns (line 306), df.sample(n) (lines 480, 619,
\* none when it raises), np.random.randn(10) (line 809)
PageDraws(block, rows) ==
    CASE block = "Data Display" -> 4
      [] block = "Advanced Features" -> 10
      [] SampleSize(block) > rows -> 0
      [] OTHER -> SampleSize(block)

cacheFrame == <<session_state, show_stop_demo, run_kind, trigger, executed, before,
                run_end, views_shown, screen, prng, sample_out, ts_out>>

\* a new server process and its first session: the first run reaches line 132
InitCache ==
    /\ GenInit
    /\ data_rows = SliderDefault
    /\ session_state = << >>
    /\ page = Pages[1]
    /\ show_stop_demo = FALSE
    /\ pc = "cache_generate"
    /\ run_kind = "full"
    /\ trigger = "none"
    /\ executed = {}
    /\ before = << >>
    /\ run_end = "running"
    /\ df = NoTable
    /\ ts_data = NoTable
    /\ views_shown = -1
    /\ screen = {}

\* lines 98-103: another page is chosen, the script reruns
CacheSelectPage(p) ==
    /\ pc = "cache_idle"
    /\ runs < MaxRuns
    /\ p # page
    /\ page' = p
    /\ pc' = "cache_generate"
    /\ UNCHANGED <<data_rows, rng, df, ts_data, cacheVars, cacheFrame>>

\* line 111: the slider is moved, the script reruns
CacheMoveSlider(n) ==
    /\ pc = "cache_idle"
    /\ runs < MaxRuns
    /\ n # data_rows
    /\ data_rows' = n
    /\ pc' = "cache_generate"
    /\ UNCHANGED <<page, rng, df, ts_data, cacheVars, cacheFrame>>

\* any other interaction: the script reruns with the widgets as they are
CacheRerun ==
    /\ pc = "cache_idle"
    /\ runs < MaxRuns
    /\ pc' = "cache_generate"
    /\ UNCHANGED <<page, data_rows, rng, df, ts_data, cacheVars, cacheFrame>>

\* lines 57, 78, 692: "Clear cache" empties what st.cache_data memoized
ClearCache ==
    /\ pc = "cache_idle"
    /\ cache # EmptyCache
    /\ cache' = EmptyCache
    /\ UNCHANGED <<page, data_rows, pc, rng, df, ts_data, returned, first_seen, runs,
                   cacheFrame>>

\* lines 132-133: each call returns the memoized result for its argument, or
\* runs the body, which draws from the global generator, and memoizes the result
CacheGenerate ==
    /\ pc = "cache_generate"
    /\ LET sample_hit == data_rows \in DOMAIN cache.sample
           sample == IF sample_hit THEN cache.sample[data_rows]
                     ELSE Call("generate_sample_data", data_rows, seed(Seed))
           rng_133 == IF sample_hit THEN rng ELSE AfterSample(data_rows)
           ts_hit == << >> \in DOMAIN cache.timeseries
           ts == IF ts_hit THEN cache.timeseries[<< >>]
                 ELSE Call("generate_timeseries_data", << >>, rng_133)
       IN  /\ cache' = [cache EXCEPT
                           !.sample = Memoize(@, data_rows, sample),
                           !.timeseries = Memoize(@, << >>, ts)]
           /\ rng' = IF ts_hit THEN rng_133 ELSE AfterTimeseries(rng_133)
           /\ returned' = [df |-> sample, ts_data |-> ts]
           /\ df' = Shape(Value(sample))
           /\ ts_data' = Shape(Value(ts))
           /\ first_seen' = IF data_rows \in DOMAIN first_seen THEN first_seen
                            ELSE Memoize(first_seen, data_rows, returned')
    /\ runs' = runs + 1
    /\ pc' = "cache_page"
    /\ UNCHANGED <<page, data_rows, cacheFrame>>

\* lines 136-875: the page block draws from the global generator; the Advanced
\* Features block calls expensive_computation(100), memoized too (lines 692-699)
CachePage ==
    /\ pc = "cache_page"
    /\ LET block == CHOOSE b \in Dispatch(page) : TRUE
           expensive_hit == 100 \in DOMAIN cache.expensive
           fresh == block = "Advanced Features" /\ ~expensive_hit
           rng_699 == IF fresh THEN Advance(rng, 100) ELSE rng
       IN  /\ cache' = IF fresh
                       THEN [cache EXCEPT !.expensive =
                               Memoize(@, 100, Call("expensive_computation", 100, rng))]
                       ELSE cache
           /\ rng' = Advance(rng_699, PageDraws(block, df.rows))
    /\ pc' = "cache_idle"
    /\ UNCHANGED <<page, data_rows, df, ts_data, returned, first_seen, runs, cacheFrame>>

NextCache ==
    \/ \E p \in PageNames : CacheSelectPage(p)
    \/ \E n \in SliderValues : CacheMoveSlider(n)
    \/ CacheRerun
    \/ ClearCache
    \/ CacheGenerate
    \/ CachePage

SpecCache == InitCache /\ [][NextCache]_vars

(***************************************************************************)
(* Properties of the session, checked under Spec.                          *)
(***************************************************************************)
\* a run has just ended: normally, at st.stop(), at an exception, or at st.rerun()
RunEnded == pc \in {"idle", "rerun"}

\* a run of the whole script has just ended
ScriptRunEnded == RunEnded /\ run_kind = "full"

\* the view counter before the run; the first run of a session finds none
CounterBefore == IF "counter" \in DOMAIN before THEN before.counter ELSE 0

\* C1 as stated: every run of the script leaves the view counter exactly one
\* above its value before the run.
C1_Original ==
    ScriptRunEnded => session_state.counter = CounterBefore + 1

\* C1: every run of the script executes line 129 and leaves the view counter
\* exactly one above its value before the run, except the run that handles a
\* click on Reset Session: that run sets the counter to 0 and ends at st.rerun()
\* before line 129.
C1_CounterPerRun ==
    ScriptRunEnded =>
        IF trigger = "Reset Session"
        THEN session_state.counter = 0 /\ "increment" \notin executed
        ELSE session_state.counter = CounterBefore + 1 /\ "increment" \in executed

C1_Witness ==
    /\ pc = "idle"
    /\ run_kind = "full"
    /\ "counter" \in DOMAIN before
    /\ before.counter = 2
    /\ session_state.counter = 3
    /\ "increment" \in executed

\* C2: after the run that handles a click on Add Message the list is the list
\* before the run with one string appended.
C2_AddMessage ==
    (ScriptRunEnded /\ trigger = "Add Message") =>
        /\ "messages" \in DOMAIN before
        /\ Len(session_state.messages) = Len(before.messages) + 1
        /\ \A i \in 1..Len(before.messages) :
              session_state.messages[i] = before.messages[i]
        /\ session_state.messages[Len(session_state.messages)]
              = MessageText(Len(before.messages) + 1)

C2_Witness ==
    /\ pc = "idle"
    /\ trigger = "Add Message"
    /\ Len(before.messages) = 1
    /\ Len(session_state.messages) = 2

HasMessages(ss) == "messages" \in DOMAIN ss

C3_AfterClear ==
    (ScriptRunEnded /\ trigger = "Clear Messages") =>
        (HasMessages(session_state) /\ session_state.messages = << >>)

C3_Step ==
    /\ (~HasMessages(session_state) /\ HasMessages(session_state')) =>
          session_state'.messages = << >>
    /\ (HasMessages(session_state) /\ session_state.messages = << >>
          /\ session_state'.messages # << >>) =>
          (trigger = "Add Message" /\ pc = "page")

\* C3: the message list is empty when it is created, is empty after the run that
\* handles a click on Clear Messages, and an empty list stays empty until a run
\* handles a click on Add Message.
C3_MessagesEmpty == [](C3_AfterClear) /\ [][C3_Step]_vars

C3_Witness ==
    /\ pc = "idle"
    /\ trigger = "Clear Messages"
    /\ Len(before.messages) = MaxMessages
    /\ session_state.messages = << >>

\* C7 as stated: a run of the script with no button pressed, whatever page is
\* selected, enters the page's block, raises nothing and reaches the footer.
C7_Claim ==
    (ScriptRunEnded /\ trigger = "none") =>
        /\ run_end = "completed"
        /\ page \in executed
        /\ "footer" \in executed

\* C8 as stated: every run of the script enters exactly one page block, that of
\* the selected page.
C8_Original ==
    ScriptRunEnded => (page \in PageNames /\ executed \cap PageNames = {page})

\* C8: the selection is one of the eight page names; no run enters a block other
\* than that of the selection, hence never two; a run that reaches the chain at
\* line 136 enters exactly that block; the run ended by Reset Session at line
\* 124 enters none.
C8_OneBlock ==
    /\ page \in PageNames
    /\ executed \cap PageNames \subseteq {page}
    /\ (ScriptRunEnded /\ "generate" \in executed) => executed \cap PageNames = {page}
    /\ (ScriptRunEnded /\ trigger = "Reset Session") => executed \cap PageNames = {}

C8_Witness ==
    /\ pc = "idle"
    /\ run_end = "completed"
    /\ page = "Advanced Features"
    /\ executed \cap PageNames = {"Advanced Features"}
    /\ trigger = "Add Message"

ExpectedEnd ==
    IF trigger = "Reset Session" THEN "rerun"
    ELSE IF page = "Charts" /\ data_rows < 200 THEN "exception"
    ELSE IF trigger = "Stop Here" THEN "stopped"
    ELSE IF trigger = "Rerun App" THEN "rerun"
    ELSE "completed"

C10_FragmentClick ==
    (pc = "idle" /\ trigger = "frag_btn") =>
        /\ "fragment_count" \in DOMAIN before
        /\ session_state = [before EXCEPT !.fragment_count = @ + 1]
        /\ session_state.counter = before.counter
        /\ session_state.messages = before.messages

C10_Witness ==
    /\ pc = "idle"
    /\ trigger = "frag_btn"
    /\ run_kind = "fragment"
    /\ session_state.fragment_count = MaxFragment
    /\ session_state.messages # << >>

\* the blocks of a run of the script on the Advanced Features page that come
\* before the Stop Here button, and those that come after it
BeforeStop ==
    {"init", "sidebar", "increment", "generate", "Advanced Features", "messages",
     "stop_demo"}
AfterStop == {"rerun_app", "fragment", "advanced_rest", "footer"}

\* C11 as stated: with the checkbox ticked, a run in which Stop Here was clicked
\* ends at the button, with all before it done and nothing after it; a run in
\* which it was not clicked renders the info message and the rest of the page.
C11_Original ==
    (ScriptRunEnded /\ show_stop_demo /\ "stop_demo" \in executed) =>
        IF trigger = "Stop Here"
        THEN /\ run_end = "stopped"
             /\ executed = BeforeStop
             /\ session_state.counter = CounterBefore + 1
        ELSE {"stop_info"} \cup AfterStop \subseteq executed

\* C11: with the checkbox ticked, a run in which Stop Here was clicked ends at
\* the button: the info message, the rest of the page and the footer are not
\* rendered, everything before the button, the counter increment included, has
\* taken effect.  A run in which it was not clicked renders the info message,
\* and the rest of the page and the footer unless Rerun App was clicked: that
\* run ends at st.rerun(), line 781, with the fragment and the footer not
\* rendered.
C11_StopHere ==
    (ScriptRunEnded /\ show_stop_demo /\ "stop_demo" \in executed) =>
        IF trigger = "Stop Here"
        THEN /\ run_end = "stopped"
             /\ executed = BeforeStop
             /\ session_state.counter = CounterBefore + 1
        ELSE IF trigger = "Rerun App"
        THEN /\ run_end = "rerun"
             /\ executed = BeforeStop \cup {"stop_info", "rerun_app"}
        ELSE /\ run_end = "completed"
             /\ executed = BeforeStop \cup {"stop_info"} \cup AfterStop

C11_Witness ==
    /\ pc = "idle"
    /\ show_stop_demo
    /\ trigger = "Stop Here"
    /\ executed = BeforeStop
    /\ session_state.counter = before.counter + 1
    /\ session_state.messages # << >>

LiteralMessages ==
    <<"Message 1", "Message 2", "Message 3", "Message 4", "Message 5",
      "Message 6", "Message 7", "Message 8", "Message 9", "Message 10",
      "Message 11", "Message 12">>

\* C13: wherever st.session_state.messages exists, it is the list "Message 1",
\* "Message 2", ..., "Message n" for its length n.
C13_MessagesNumbered ==
    HasMessages(session_state) =>
        /\ Len(session_state.messages) <= Len(LiteralMessages)
        /\ session_state.messages
              = SubSeq(LiteralMessages, 1, Len(session_state.messages))

\* the list refilled after a Clear Messages, back at its full length
C13_Witness ==
    /\ pc = "idle"
    /\ trigger = "Add Message"
    /\ Len(session_state.messages) = MaxMessages
    /\ session_state.messages[MaxMessages] = LiteralMessages[MaxMessages]
    /\ "fragment_count" \in DOMAIN session_state
    /\ session_state.fragment_count > 0

\* the run of the script that starts with the counter at 0: the one st.rerun()
\* starts after Reset Session (the first run of a session finds no counter)
AfterReset ==
    run_kind = "full" /\ "counter" \in DOMAIN before /\ before.counter = 0

C14_ResetRun ==
    /\ trigger = "Reset Session" => "increment" \notin executed
    /\ (pc = "rerun" /\ trigger = "Reset Session") =>
          (run_end = "rerun" /\ session_state.counter = 0)

C14_NextRun ==
    AfterReset =>
        /\ trigger = "none"
        /\ "sidebar" \in executed => views_shown = 0
        /\ ScriptRunEnded =>
              (views_shown = 0 /\ session_state.counter = 1 /\ "increment" \in executed)

C14_Step ==
    /\ (pc = "sidebar" /\ trigger = "Reset Session") =>
          (pc' = "rerun" /\ session_state'.counter = 0)
    /\ (pc = "rerun" /\ trigger = "Reset Session") =>
          (pc' = "init" /\ run_kind' = "full" /\ trigger' = "none"
              /\ before'.counter = 0 /\ session_state'.counter = 0)

\* C14: the run that handles a click on Reset Session ends at st.rerun() with the
\* counter at 0 and line 129 not executed; the run that follows at once shows 0
\* as Session Views and ends with the counter at 1.
C14_Reset == [](C14_ResetRun /\ C14_NextRun) /\ [][C14_Step]_vars

C14_Witness ==
    /\ pc = "idle"
    /\ AfterReset
    /\ views_shown = 0
    /\ session_state.counter = 1
    /\ HasMessages(session_state)
    /\ session_state.messages # << >>

\* C15: the run that handles a click on Reset Session changes the counter alone,
\* and so does the run that follows it; data_cache is None and user_name is ""
\* wherever they exist.
C15_ResetFrame ==
    /\ (pc = "rerun" /\ trigger = "Reset Session") =>
          session_state = [before EXCEPT !.counter = 0]
    /\ (trigger = "Reset Session" /\ pc # "init") =>
          \A k \in DOMAIN before \ {"counter"} :
              k \in DOMAIN session_state /\ session_state[k] = before[k]
    /\ "data_cache" \in DOMAIN session_state => session_state.data_cache = "None"
    /\ "user_name" \in DOMAIN session_state => session_state.user_name = ""

C15_Witness ==
    /\ pc = "rerun"
    /\ trigger = "Reset Session"
    /\ HasMessages(session_state)
    /\ session_state.messages # << >>
    /\ "fragment_count" \in DOMAIN session_state
    /\ session_state.fragment_count > 0
    /\ session_state.messages = before.messages
    /\ session_state.fragment_count = before.fragment_count

(***************************************************************************)
(* Properties of the generators, checked under SpecGen.                    *)
(***************************************************************************)
TenColumns ==
    {"timestamp", "category", "value", "count", "temperature", "humidity",
     "status", "latitude", "longitude", "score"}

SeqValues(xs) == {xs[i] : i \in 1..Len(xs)}

\* C4: generate_sample_data(N) has exactly N rows in each of exactly the ten
\* named columns, for every N of the slider, and the df the script binds at
\* line 132 has as many rows as data_rows.
C4_SampleShape ==
    sample_out # << >> =>
        /\ Columns(sample_out) = TenColumns
        /\ \A c \in TenColumns : Len(sample_out[c]) = data_rows
        /\ df = [rows |-> data_rows, columns |-> TenColumns]

\* the same of every run of the session, checked under Spec: once line 132 has
\* executed, df has data_rows rows and the ten columns
DfMatchesSlider ==
    "generate" \in executed => df = [rows |-> data_rows, columns |-> TenColumns]

C4_Witness ==
    /\ sample_out # << >>
    /\ data_rows = SliderMax
    /\ Len(sample_out.score) = SliderMax

\* C5: every value of category, status, count, humidity, score, latitude and
\* longitude lies in its generation range, for every row count of the slider.
C5_SampleRanges ==
    sample_out # << >> =>
        /\ SeqValues(sample_out.category) \subseteq {"A", "B", "C", "D"}
        /\ SeqValues(sample_out.status) \subseteq {"Active", "Inactive", "Pending"}
        /\ \A i \in 1..Len(sample_out.count) :
              /\ sample_out.count[i] \in 1..99
              /\ Fix(300) <= sample_out.humidity[i] /\ sample_out.humidity[i] <= Fix(900)
              /\ Fix(0) <= sample_out.score[i] /\ sample_out.score[i] <= Fix(1000)
              /\ Fix(407) <= sample_out.latitude[i] /\ sample_out.latitude[i] <= Fix(408)
              /\ Fix(-740) <= sample_out.longitude[i] /\ sample_out.longitude[i] <= Fix(-739)

\* a table in which count takes both ends of its range and every category and
\* status occurs
C5_Witness ==
    /\ sample_out # << >>
    /\ {1, 99} \subseteq SeqValues(sample_out.count)
    /\ SeqValues(sample_out.category) = {"A", "B", "C", "D"}
    /\ SeqValues(sample_out.status) = {"Active", "Inactive", "Pending"}
    /\ Fix(300) \in SeqValues(sample_out.humidity)

RECURSIVE DaysBeforeMonth(_, _)
DaysBeforeMonth(y, m) ==
    IF m = 1 THEN 0 ELSE DaysBeforeMonth(y, m - 1) + DaysInMonth(y, m - 1)

\* the number of a date within its year, 1 for the first of January
DayOfYear(date) == DaysBeforeMonth(date.year, date.month) + date.day

\* C6: generate_timeseries_data returns the four columns date, metric1, metric2,
\* metric3 with exactly 365 rows, one per consecutive day from 2023-01-01
\* through 2023-12-31.
C6_TimeseriesShape ==
    ts_out # << >> =>
        /\ Columns(ts_out) = {"date", "metric1", "metric2", "metric3"}
        /\ \A c \in Columns(ts_out) : Len(ts_out[c]) = 365
        /\ ts_out.date[1].date = [year |-> 2023, month |-> 1, day |-> 1]
        /\ ts_out.date[365].date = [year |-> 2023, month |-> 12, day |-> 31]
        /\ \A i \in 1..365 :
              /\ ts_out.date[i].date.year = 2023
              /\ ts_out.date[i].date.month \in 1..12
              /\ ts_out.date[i].date.day \in 1..DaysInMonth(2023, ts_out.date[i].date.month)
              /\ ts_out.date[i].hour = 0
              /\ DayOfYear(ts_out.date[i].date) = i

\* the time series generated after a sample table, from the seeded generator
C6_Witness ==
    /\ ts_out # << >>
    /\ sample_out # << >>
    /\ rng.seed = Seed
    /\ ts_data = [rows |-> TimeseriesPeriods, columns |-> Columns(ts_out)]

(***************************************************************************)
(* Properties of the memoized datasets, checked under SpecCache.           *)
(***************************************************************************)
SameTable(a, b) == a = b \/ Value(a) = Value(b)

\* a run of the script has bound df and ts_data
Bound == pc \in {"cache_page", "cache_idle"}

\* the sample table of a run is the one the first run with its data_rows saw
SampleDeterministic ==
    Bound => SameTable(returned.df, first_seen[data_rows].df)

\* the time-series table of a run is the one the first run with its data_rows saw
TimeseriesDeterministic ==
    Bound => SameTable(returned.ts_data, first_seen[data_rows].ts_data)

\* C12 as stated: any two runs with the same data_rows see an identical sample
\* table and an identical time-series table, memoized or freshly computed.
C12_Claim == SampleDeterministic /\ TimeseriesDeterministic

====
